---- MODULE Spec2Model ----
(***************************************************************************)
(* Model of tool-meister: the action execution engine (src/src/commands.rs,*)
(* execute_actions) with the pure helpers it calls (src/src/config.rs,     *)
(* Config::interpolate), the manifest sources of the global configuration  *)
(* (src/src/global_config.rs), manifest loading (src/src/main.rs,          *)
(* Config::strip_comments) and the lifecycle commands                      *)
(* (src/src/commands/*.rs).                                                *)
(*                                                                         *)
(* Strings are modelled as sequences of one-character strings, so that     *)
(* starts_with, contains, replace and join are computed character by       *)
(* character as the Rust standard library computes them.                   *)
(***************************************************************************)
EXTENDS Integers, Sequences, FiniteSets, TLC

VARIABLES
    repo,         \* Config.repo: [name, url]
    info_args,    \* Config.info_args: sequence of strings
    actions,      \* the action list handed to execute_actions
    extra_args,   \* Option<&[String]>: [some |-> BOOLEAN, val |-> sequence of strings]
    force_spawn,  \* bool parameter of execute_actions
    force_wait,   \* bool parameter of execute_actions
    idx,          \* position of the `for action in actions` loop (1-based)
    pc,           \* control point of execute_actions
    cur,          \* locals of the current iteration: full_command, cmd, mode
    output,       \* lines printed to standard output so far
    started,      \* subprocesses successfully launched so far, in launch order
    children,     \* per action index: what the OS made of the child process of that action
    result,       \* return value of execute_actions
    template,     \* the text handed to Config::interpolate
    once,         \* Option: the value returned by interpolate(template)
    twice,        \* Option: the value returned by interpolate on that value
    manifest_sources, \* GlobalConfig.manifest_sources
    files,        \* the manifest files present in the file system
    calls,        \* number of add_manifest_source calls made so far
    add_result,   \* the last add_manifest_source call: its arguments and return value
    find_result,  \* the last find_tool_manifest call: its argument and return value
    load_result,  \* the last load_tool_config call: its arguments and return value
    content,      \* the text handed to Config::strip_comments
    stripped,     \* Option: the value returned by strip_comments(content)
    manifest,     \* Config.actions of the tool: the four action lists
    repo_dir,     \* whether <tools_dir>/<repo.name> exists
    command,      \* the lifecycle command main is running, with its outcome
    console,      \* lines printed by main and by the command functions
    runs          \* number of commands main has been started with so far

vars == <<repo, info_args, actions, extra_args, force_spawn, force_wait,
          idx, pc, cur, output, started, children, result,
          template, once, twice,
          manifest_sources, files, calls, add_result, find_result, load_result,
          content, stripped,
          manifest, repo_dir, command, console, runs>>

\* the variables of the manifest-source operations
gvars == <<manifest_sources, files, calls, add_result, find_result, load_result>>

\* the variables of the strip_comments calls
svars == <<content, stripped>>

\* the variables of main and the lifecycle command functions
lvars == <<manifest, repo_dir, command, console, runs>>

\* the variables of the interpolation calls
ivars == <<template, once, twice>>

inputs == <<repo, info_args, actions, extra_args, force_spawn, force_wait>>

(***************************************************************************)
(* Bounds of the model.                                                    *)
(***************************************************************************)
MaxActions == 2
MaxArgs == 2

(***************************************************************************)
(* String literals of the source, as character sequences.                  *)
(***************************************************************************)
SPACE == " "
TAB == "\t"

URL_TOKEN == <<"[", "[", "r", "e", "p", "o", ".", "u", "r", "l", "]", "]">>
NAME_TOKEN == <<"[", "[", "r", "e", "p", "o", ".", "n", "a", "m", "e", "]", "]">>

SH == <<"s", "h">>
DASH_C == <<"-", "c">>
RELATIVE_PREFIX == <<".", "/">>

ARG_HELP == <<"-", "-", "h", "e", "l", "p">>
ARG_H == <<"-", "h">>
ARG_VERSION == <<"-", "-", "v", "e", "r", "s", "i", "o", "n">>
ARG_V == <<"-", "V">>
ARG_LIST == <<"-", "-", "l", "i", "s", "t">>
ARG_SHOW == <<"-", "-", "s", "h", "o", "w">>

default_info_args == <<ARG_HELP, ARG_H, ARG_VERSION, ARG_V, ARG_LIST, ARG_SHOW>>

(***************************************************************************)
(* Pure string functions.                                                  *)
(***************************************************************************)
\* str::starts_with
starts_with(s, p) == Len(s) >= Len(p) /\ SubSeq(s, 1, Len(p)) = p

\* str::contains(char)
contains_char(s, c) == \E i \in 1..Len(s) : s[i] = c

\* replace that substitutes the first occurrence only (str::replacen(.., 1))
replace_FirstOnly(s, from, to) ==
    IF \E k \in 1..(Len(s) - Len(from) + 1) : SubSeq(s, k, k + Len(from) - 1) = from
    THEN LET k == CHOOSE k \in 1..(Len(s) - Len(from) + 1) :
                      /\ SubSeq(s, k, k + Len(from) - 1) = from
                      /\ \A j \in 1..(k - 1) : SubSeq(s, j, j + Len(from) - 1) # from
         IN SubSeq(s, 1, k - 1) \o to \o SubSeq(s, k + Len(from), Len(s))
    ELSE s

\* str::replace(from, to): left-to-right, non-overlapping, output not re-scanned
RECURSIVE replace(_, _, _)
replace(s, from, to) ==
    IF Len(s) < Len(from) THEN s
    ELSE IF SubSeq(s, 1, Len(from)) = from
         THEN to \o replace(SubSeq(s, Len(from) + 1, Len(s)), from, to)
         ELSE <<s[1]>> \o replace(Tail(s), from, to)

\* interpolate with the two metadata values exchanged
interpolate_SwappedValues(text) ==
    replace(replace(text, URL_TOKEN, repo.name), NAME_TOKEN, repo.url)

\* Config::interpolate
interpolate(text) == replace(replace(text, URL_TOKEN, repo.url), NAME_TOKEN, repo.name)

\* [String]::join(" ")
RECURSIVE join(_, _)
join(ss, sep) ==
    IF ss = <<>> THEN <<>>
    ELSE IF Len(ss) = 1 THEN ss[1]
    ELSE ss[1] \o <<sep>> \o join(Tail(ss), sep)

\* slice_contains with a substring test in place of string equality
slice_contains_Substring(list, x) ==
    \E j \in 1..Len(list) : \E k \in 0..(Len(x) - Len(list[j])) :
        SubSeq(x, k + 1, k + Len(list[j])) = list[j]

\* slice::contains on a slice of strings: whole-string equality
slice_contains(list, x) == \E j \in 1..Len(list) : list[j] = x

(***************************************************************************)
(* The per-action computations of execute_actions.                         *)
(***************************************************************************)
\* full_command that appends the extra arguments before interpolating
full_command_InterpolatesArgs(action, eargs) ==
    IF eargs.some
    THEN IF eargs.val = <<>>
         THEN interpolate(action.command)
         ELSE interpolate(action.command \o <<SPACE>> \o join(eargs.val, SPACE))
    ELSE interpolate(action.command)

\* full_command: the interpolated command with the extra arguments appended
full_command(action, eargs) ==
    IF eargs.some
    THEN IF eargs.val = <<>>
         THEN interpolate(action.command)
         ELSE interpolate(action.command) \o <<SPACE>> \o join(eargs.val, SPACE)
    ELSE interpolate(action.command)

\* classify with the space test ahead of the ./ test
classify_SpaceFirst(fc) ==
    IF contains_char(fc, SPACE) THEN "with_args"
    ELSE IF starts_with(fc, RELATIVE_PREFIX) THEN "relative"
    ELSE "simple"

\* classify without the branch for commands with arguments
classify_NoArgsBranch(fc) ==
    IF starts_with(fc, RELATIVE_PREFIX) THEN "relative"
    ELSE "simple"

\* which of the three branches builds the Command
classify(fc) ==
    IF starts_with(fc, RELATIVE_PREFIX) THEN "relative"
    ELSE IF contains_char(fc, SPACE) THEN "with_args"
    ELSE "simple"

\* build_cmd that hands only ./ commands to the shell
build_cmd_ShellOnlyRelative(fc) ==
    IF starts_with(fc, RELATIVE_PREFIX) THEN [program |-> SH, args |-> <<DASH_C, fc>>]
    ELSE [program |-> fc, args |-> <<>>]

\* the tokio Command built for the final command string
build_cmd(fc) ==
    IF classify(fc) = "relative" THEN [program |-> SH, args |-> <<DASH_C, fc>>]
    ELSE IF classify(fc) = "with_args" THEN [program |-> SH, args |-> <<DASH_C, fc>>]
    ELSE [program |-> fc, args |-> <<>>]

\* effective_info_args with the configured table added to the built-in set
effective_info_args_Merged(cfg) == cfg \o default_info_args

\* the info-argument set consulted by the smart default
effective_info_args(cfg) == IF cfg = <<>> THEN default_info_args ELSE cfg

\* has_info_arg
has_info_arg(eargs, cfg) ==
    \E i \in 1..Len(IF eargs.some THEN eargs.val ELSE <<>>) :
        slice_contains(effective_info_args(cfg), eargs.val[i])

\* should_spawn with the two overrides tested in the opposite order
should_spawn_SpawnFirst(fspawn, fwait, eargs, cfg) ==
    IF fspawn THEN TRUE
    ELSE IF fwait THEN FALSE
    ELSE IF ~(eargs.some /\ eargs.val # <<>>) THEN TRUE
    ELSE ~has_info_arg(eargs, cfg)

\* should_spawn without the force_spawn override
should_spawn_NoForceSpawn(fspawn, fwait, eargs, cfg) ==
    IF fwait THEN FALSE
    ELSE IF ~(eargs.some /\ eargs.val # <<>>) THEN TRUE
    ELSE ~has_info_arg(eargs, cfg)

\* should_spawn with the no-arguments case inverted
should_spawn_NoArgsWaits(fspawn, fwait, eargs, cfg) ==
    IF fwait THEN FALSE
    ELSE IF fspawn THEN TRUE
    ELSE IF ~(eargs.some /\ eargs.val # <<>>) THEN FALSE
    ELSE ~has_info_arg(eargs, cfg)

\* should_spawn that remembers an earlier launch: only the first action of a
\* call is ever detached
should_spawn_Remembers(fspawn, fwait, eargs, cfg) ==
    IF started # <<>> THEN FALSE
    ELSE IF fwait THEN FALSE
    ELSE IF fspawn THEN TRUE
    ELSE IF ~(eargs.some /\ eargs.val # <<>>) THEN TRUE
    ELSE ~has_info_arg(eargs, cfg)

\* should_spawn, evaluated only inside `if action.spawn`
should_spawn(fspawn, fwait, eargs, cfg) ==
    IF fwait THEN FALSE
    ELSE IF fspawn THEN TRUE
    ELSE IF ~(eargs.some /\ eargs.val # <<>>) THEN TRUE
    ELSE ~has_info_arg(eargs, cfg)

\* mode_of that consults the overrides without looking at action.spawn
mode_of_IgnoresFlag(action, fspawn, fwait, eargs, cfg) ==
    IF should_spawn(fspawn, fwait, eargs, cfg) THEN "spawn" ELSE "wait"

\* the execution mode of one action
mode_of(action, fspawn, fwait, eargs, cfg) ==
    IF action.spawn
    THEN IF should_spawn(fspawn, fwait, eargs, cfg) THEN "spawn" ELSE "wait"
    ELSE "wait"

(***************************************************************************)
(* Inputs of one execute_actions call.                                     *)
(***************************************************************************)
SeqsUpTo(S, n) == UNION {[1..k -> S] : k \in 0..n}

CMD_RELATIVE == <<".", "/", "r">>
CMD_WITH_ARGS == <<"a", " ">> \o URL_TOKEN
CMD_TAB == <<"a", TAB, "b">>
CMD_BARE == <<"x", "-">> \o NAME_TOKEN

Commands == {CMD_RELATIVE, CMD_WITH_ARGS, CMD_TAB, CMD_BARE}

\* seq-id values carried by the manifest; display only
SeqIdOf(c) ==
    IF c = CMD_RELATIVE THEN 30
    ELSE IF c = CMD_WITH_ARGS THEN 20
    ELSE IF c = CMD_TAB THEN 20
    ELSE 10

ActionPool == {[seq_id |-> SeqIdOf(c), command |-> c, spawn |-> s] :
                    c \in Commands, s \in BOOLEAN}

ARG_X == <<"-", "x">>
ArgPool == {ARG_HELP, ARG_X}

\* info_args tables a manifest may carry: absent (serde default), one entry,
\* two entries
InfoTables == {<<>>, <<ARG_H>>, <<ARG_X, ARG_H>>}

Repos == {[name |-> <<"t">>, url |-> <<"u">>]}

None == [some |-> FALSE, val |-> <<>>]
Some(v) == [some |-> TRUE, val |-> v]

NoCur == [idx |-> 0]

\* no manifest-source operation is part of the run
SourcesIdle ==
    /\ manifest_sources = <<>>
    /\ files = {}
    /\ calls = 0
    /\ add_result = [kind |-> "none"]
    /\ find_result = [kind |-> "none"]
    /\ load_result = [kind |-> "none"]

\* no strip_comments call is part of the run
StripIdle ==
    /\ content = <<>>
    /\ stripped = None

\* execute_actions is called directly, not through main
LifeIdle ==
    /\ manifest = [installation |-> <<>>, update |-> <<>>, build |-> <<>>, run |-> <<>>]
    /\ repo_dir = FALSE
    /\ command = [name |-> "none"]
    /\ console = <<>>
    /\ runs = 0

(***************************************************************************)
(* State machine of one execute_actions call.                              *)
(***************************************************************************)
Init ==
    /\ repo \in Repos
    /\ info_args \in InfoTables
    /\ actions \in SeqsUpTo(ActionPool, MaxActions)
    /\ extra_args \in {None} \cup {Some(v) : v \in SeqsUpTo(ArgPool, MaxArgs)}
    /\ force_spawn \in BOOLEAN
    /\ force_wait \in BOOLEAN
    /\ idx = 1
    /\ pc = "loop"
    /\ cur = NoCur
    /\ output = <<>>
    /\ started = <<>>
    /\ children = [i \in 1..Len(actions) |-> "none"]
    /\ result = [kind |-> "none"]
    /\ template = <<>>
    /\ once = None
    /\ twice = None
    /\ SourcesIdle
    /\ StripIdle
    /\ LifeIdle

\* BeginAction that prints the resolved command ahead of the step announcement
BeginAction_ExecutingFirst ==
    /\ pc = "loop"
    /\ idx <= Len(actions)
    /\ LET action == actions[idx]
           fc == full_command(action, extra_args)
           m == mode_of(action, force_spawn, force_wait, extra_args, info_args)
       IN /\ output' = output \o <<[kind |-> "Executing", idx |-> idx, text |-> fc],
                                   [kind |-> "Step", idx |-> idx, seq_id |-> action.seq_id]>>
          /\ cur' = [idx |-> idx, full_command |-> fc, branch |-> classify(fc),
                     cmd |-> build_cmd(fc), spawn |-> action.spawn, mode |-> m]
          /\ pc' = IF m = "spawn" THEN "spawning" ELSE "executing"
    /\ UNCHANGED <<inputs, ivars, gvars, svars, lvars, idx, started, children, result>>

\* lines 130-196: announce the step, resolve the command, build the Command,
\* decide the mode
BeginAction ==
    /\ pc = "loop"
    /\ idx <= Len(actions)
    /\ LET action == actions[idx]
           fc == full_command(action, extra_args)
           m == mode_of(action, force_spawn, force_wait, extra_args, info_args)
       IN /\ output' = output \o <<[kind |-> "Step", idx |-> idx, seq_id |-> action.seq_id],
                                   [kind |-> "Executing", idx |-> idx, text |-> fc]>>
          /\ cur' = [idx |-> idx, full_command |-> fc, branch |-> classify(fc),
                     cmd |-> build_cmd(fc), spawn |-> action.spawn, mode |-> m]
          /\ pc' = IF m = "spawn" THEN "spawning" ELSE "executing"
    /\ UNCHANGED <<inputs, ivars, gvars, svars, lvars, idx, started, children, result>>

\* SpawnOk that awaits the detached child like a wait-mode child
SpawnOk_Awaits ==
    /\ pc = "spawning"
    /\ started' = Append(started, [idx |-> idx, cmd |-> cur.cmd, mode |-> "spawn"])
    /\ children' = [children EXCEPT ![idx] = "running"]
    /\ pc' = "waiting"
    /\ UNCHANGED <<inputs, ivars, gvars, svars, lvars, idx, cur, output, result>>

\* lines 198-212: cmd.spawn() succeeds; the child is detached and not awaited
SpawnOk ==
    /\ pc = "spawning"
    /\ started' = Append(started, [idx |-> idx, cmd |-> cur.cmd, mode |-> "spawn"])
    /\ children' = [children EXCEPT ![idx] = "running"]
    /\ output' = Append(output, [kind |-> "Spawned", idx |-> idx])
    /\ idx' = idx + 1
    /\ pc' = "loop"
    /\ UNCHANGED <<inputs, ivars, gvars, svars, lvars, cur, result>>

\* SpawnFail that swallows the launch error and goes on with the next action
SpawnFail_Swallowed ==
    /\ pc = "spawning"
    /\ children' = [children EXCEPT ![idx] = "launch_failed"]
    /\ idx' = idx + 1
    /\ pc' = "loop"
    /\ UNCHANGED <<inputs, ivars, gvars, svars, lvars, cur, output, started, result>>

\* lines 204-206: cmd.spawn() fails; `?` returns the error
SpawnFail ==
    /\ pc = "spawning"
    /\ children' = [children EXCEPT ![idx] = "launch_failed"]
    /\ result' = [kind |-> "Err", msg |-> "Failed to spawn command",
                  command |-> cur.full_command, os_error |-> TRUE, idx |-> idx]
    /\ pc' = "failed"
    /\ UNCHANGED <<inputs, ivars, gvars, svars, lvars, idx, cur, output, started>>

\* WaitLaunchOk that does not await the child
WaitLaunchOk_Detached ==
    /\ pc = "executing"
    /\ started' = Append(started, [idx |-> idx, cmd |-> cur.cmd, mode |-> "wait"])
    /\ children' = [children EXCEPT ![idx] = "running"]
    /\ output' = Append(output, [kind |-> "Completed", idx |-> idx])
    /\ idx' = idx + 1
    /\ pc' = "loop"
    /\ UNCHANGED <<inputs, ivars, gvars, svars, lvars, cur, result>>

\* lines 215-221 / 232-238: cmd.status() launches the child and awaits it
WaitLaunchOk ==
    /\ pc = "executing"
    /\ started' = Append(started, [idx |-> idx, cmd |-> cur.cmd, mode |-> "wait"])
    /\ children' = [children EXCEPT ![idx] = "running"]
    /\ pc' = "waiting"
    /\ UNCHANGED <<inputs, ivars, gvars, svars, lvars, idx, cur, output, result>>

\* lines 219-222 / 236-239: cmd.status() cannot start the child
WaitLaunchFail ==
    /\ pc = "executing"
    /\ children' = [children EXCEPT ![idx] = "launch_failed"]
    /\ result' = [kind |-> "Err", msg |-> "Failed to execute command",
                  command |-> cur.full_command, os_error |-> TRUE, idx |-> idx]
    /\ pc' = "failed"
    /\ UNCHANGED <<inputs, ivars, gvars, svars, lvars, idx, cur, output, started>>

\* the operating system: a running child terminates with some exit status
ChildExit(i, status) ==
    /\ children[i] = "running"
    /\ children' = [children EXCEPT ![i] = status]
    /\ UNCHANGED <<inputs, ivars, gvars, svars, lvars, idx, pc, cur, output, started, result>>

\* WaitSuccess that does not examine the exit status
WaitSuccess_IgnoresStatus ==
    /\ pc = "waiting"
    /\ children[idx] \in {"exit_ok", "exit_fail"}
    /\ output' = Append(output, [kind |-> "Completed", idx |-> idx])
    /\ idx' = idx + 1
    /\ pc' = "loop"
    /\ UNCHANGED <<inputs, ivars, gvars, svars, lvars, cur, started, children, result>>

\* lines 224-228 / 241-245: the awaited child has terminated successfully
WaitSuccess ==
    /\ pc = "waiting"
    /\ children[idx] = "exit_ok"
    /\ output' = Append(output, [kind |-> "Completed", idx |-> idx])
    /\ idx' = idx + 1
    /\ pc' = "loop"
    /\ UNCHANGED <<inputs, ivars, gvars, svars, lvars, cur, started, children, result>>

\* WaitFailure that runs the failed action again
WaitFailure_Retries ==
    /\ pc = "waiting"
    /\ children[idx] = "exit_fail"
    /\ pc' = "loop"
    /\ UNCHANGED <<inputs, ivars, gvars, svars, lvars, idx, cur, output, started, children, result>>

\* WaitFailure that reports the command template instead of the resolved command
WaitFailure_TemplatePayload ==
    /\ pc = "waiting"
    /\ children[idx] = "exit_fail"
    /\ result' = [kind |-> "Err", msg |-> "Command failed",
                  command |-> actions[idx].command, os_error |-> FALSE, idx |-> idx]
    /\ pc' = "failed"
    /\ UNCHANGED <<inputs, ivars, gvars, svars, lvars, idx, cur, output, started, children>>

\* WaitFailure that also gives up on a child that is still running (a timeout)
WaitFailure_TimesOut ==
    /\ pc = "waiting"
    /\ children[idx] \in {"running", "exit_fail"}
    /\ result' = [kind |-> "Err", msg |-> "Command failed",
                  command |-> cur.full_command, os_error |-> FALSE, idx |-> idx]
    /\ pc' = "failed"
    /\ UNCHANGED <<inputs, ivars, gvars, svars, lvars, idx, cur, output, started, children>>

\* lines 224-226 / 241-243: the awaited child has failed; bail!
WaitFailure ==
    /\ pc = "waiting"
    /\ children[idx] = "exit_fail"
    /\ result' = [kind |-> "Err", msg |-> "Command failed",
                  command |-> cur.full_command, os_error |-> FALSE, idx |-> idx]
    /\ pc' = "failed"
    /\ UNCHANGED <<inputs, ivars, gvars, svars, lvars, idx, cur, output, started, children>>

\* line 249: the loop is exhausted
ReturnOk ==
    /\ pc = "loop"
    /\ idx > Len(actions)
    /\ result' = [kind |-> "Ok"]
    /\ pc' = "done"
    /\ UNCHANGED <<inputs, ivars, gvars, svars, lvars, idx, cur, output, started, children>>

Next ==
    \/ BeginAction
    \/ SpawnOk
    \/ SpawnFail
    \/ WaitLaunchOk
    \/ WaitLaunchFail
    \/ \E i \in 1..Len(actions) : \E status \in {"exit_ok", "exit_fail"} : ChildExit(i, status)
    \/ WaitSuccess
    \/ WaitFailure
    \/ ReturnOk

Spec == Init /\ [][Next]_vars

(***************************************************************************)
(* execute_actions called with trailing arguments that contain placeholder *)
(* tokens and spaces (run_command forwards the CLI arguments verbatim).    *)
(***************************************************************************)
ARG_SPACED == <<"p", " ", "q">>
ARG_EMPTY == <<>>
AppendArgPool == {ARG_X, NAME_TOKEN, ARG_SPACED, ARG_EMPTY}

AppendActionPool ==
    {[seq_id |-> 10, command |-> CMD_BARE, spawn |-> FALSE],
     [seq_id |-> 20, command |-> CMD_WITH_ARGS, spawn |-> TRUE]}

AppendInit ==
    /\ repo \in Repos
    /\ info_args = <<>>
    /\ actions \in SeqsUpTo(AppendActionPool, MaxActions)
    /\ extra_args \in {None} \cup {Some(v) : v \in SeqsUpTo(AppendArgPool, MaxArgs)}
    /\ force_spawn = FALSE
    /\ force_wait = FALSE
    /\ idx = 1
    /\ pc = "loop"
    /\ cur = NoCur
    /\ output = <<>>
    /\ started = <<>>
    /\ children = [i \in 1..Len(actions) |-> "none"]
    /\ result = [kind |-> "none"]
    /\ template = <<>>
    /\ once = None
    /\ twice = None
    /\ SourcesIdle
    /\ StripIdle
    /\ LifeIdle

SpecAppend == AppendInit /\ [][Next]_vars

(***************************************************************************)
(* execute_actions called on longer action lists, with fewer combinations  *)
(* of the inputs that only decide the mode.                                *)
(***************************************************************************)
SeqActionPool ==
    {[seq_id |-> 30, command |-> CMD_BARE, spawn |-> FALSE],
     [seq_id |-> 10, command |-> CMD_BARE, spawn |-> TRUE],
     [seq_id |-> 20, command |-> CMD_WITH_ARGS, spawn |-> TRUE]}

SeqInit ==
    /\ repo \in Repos
    /\ info_args = <<>>
    /\ actions \in SeqsUpTo(SeqActionPool, MaxActions + 1)
    /\ extra_args \in {None, Some(<<ARG_X>>), Some(<<ARG_HELP>>)}
    /\ force_spawn \in BOOLEAN
    /\ force_wait \in BOOLEAN
    /\ idx = 1
    /\ pc = "loop"
    /\ cur = NoCur
    /\ output = <<>>
    /\ started = <<>>
    /\ children = [i \in 1..Len(actions) |-> "none"]
    /\ result = [kind |-> "none"]
    /\ template = <<>>
    /\ once = None
    /\ twice = None
    /\ SourcesIdle
    /\ StripIdle
    /\ LifeIdle

SpecSeq == SeqInit /\ [][Next]_vars

(***************************************************************************)
(* The same calls with the runner's own progress made explicit: the call   *)
(* is one future polled to completion by the tokio runtime (#[tokio::main]),*)
(* so a step of the runner that stays possible is eventually taken.        *)
(* Nothing is assumed about the children.                                  *)
(***************************************************************************)
\* one step of execute_actions itself
RunnerStep ==
    \/ BeginAction
    \/ SpawnOk
    \/ SpawnFail
    \/ WaitLaunchOk
    \/ WaitLaunchFail
    \/ WaitSuccess
    \/ WaitFailure
    \/ ReturnOk

SpecFair == SeqInit /\ [][Next]_vars /\ WF_vars(RunnerStep)

(***************************************************************************)
(* Config::interpolate applied to a template, and to its own result.       *)
(***************************************************************************)
MaxPieces == 2

FRAG_OPEN == <<"[", "[", "r", "e", "p", "o", ".">>
FRAG_NAME_CLOSE == <<"n", "a", "m", "e", "]", "]">>
FRAG_URL_CLOSE == <<"u", "r", "l", "]", "]">>
OTHER_TOKEN == <<"[", "[", "x", "]", "]">>
PLAIN == <<"g", " ">>

\* the pieces templates are assembled from
Pieces == {URL_TOKEN, NAME_TOKEN, FRAG_OPEN, OTHER_TOKEN, PLAIN}

RECURSIVE concat(_)
concat(ss) == IF ss = <<>> THEN <<>> ELSE ss[1] \o concat(Tail(ss))

Templates == {concat(ps) : ps \in SeqsUpTo(Pieces, MaxPieces)}

\* repository metadata: plain values, values spelling a token without its
\* brackets, values holding a placeholder token and values holding the tail
\* of one
BARE_NAME == <<"r", "e", "p", "o", ".", "n", "a", "m", "e">>
BARE_URL == <<"r", "e", "p", "o", ".", "u", "r", "l">>
InterpNames == {<<"t">>, BARE_URL, URL_TOKEN, FRAG_URL_CLOSE}
InterpUrls == {<<"u">>, BARE_NAME, <<"x">> \o NAME_TOKEN, FRAG_NAME_CLOSE}
InterpRepos == {[name |-> n, url |-> u] : n \in InterpNames, u \in InterpUrls}

InterpInit ==
    /\ repo \in InterpRepos
    /\ template \in Templates
    /\ once = None
    /\ twice = None
    /\ info_args = <<>>
    /\ actions = <<>>
    /\ extra_args = None
    /\ force_spawn = FALSE
    /\ force_wait = FALSE
    /\ idx = 1
    /\ pc = "loop"
    /\ cur = NoCur
    /\ output = <<>>
    /\ started = <<>>
    /\ children = <<>>
    /\ result = [kind |-> "none"]
    /\ SourcesIdle
    /\ StripIdle
    /\ LifeIdle

\* config.interpolate(&template)
InterpolateOnce ==
    /\ ~once.some
    /\ once' = Some(interpolate(template))
    /\ UNCHANGED <<inputs, gvars, svars, lvars, template, twice, idx, pc, cur, output, started, children, result>>

\* config.interpolate applied to the value it returned
InterpolateTwice ==
    /\ once.some
    /\ ~twice.some
    /\ twice' = Some(interpolate(once.val))
    /\ UNCHANGED <<inputs, gvars, svars, lvars, template, once, idx, pc, cur, output, started, children, result>>

InterpNext ==
    \/ InterpolateOnce
    \/ InterpolateTwice

SpecInterp == InterpInit /\ [][InterpNext]_vars

(***************************************************************************)
(* Manifest sources (src/src/global_config.rs): a small file system, the   *)
(* path functions of std::path and std::fs that the code calls, and        *)
(* GlobalConfig::add_manifest_source.                                      *)
(***************************************************************************)
MaxCalls == 3

SLASH == "/"
DOT == <<".">>
DOTDOT == <<".", ".">>

HTTP_PREFIX == <<"h", "t", "t", "p", ":", "/", "/">>
HTTPS_PREFIX == <<"h", "t", "t", "p", "s", ":", "/", "/">>
GIT_AT_PREFIX == <<"g", "i", "t", "@">>

JSONC_EXT == <<".", "j", "s", "o", "n", "c">>
MANIFEST_CACHE == <<".", "m", "a", "n", "i", "f", "e", "s", "t", "-", "c", "a", "c", "h", "e">>
URL_MANIFESTS == <<"u", "r", "l", "-", "m", "a", "n", "i", "f", "e", "s", "t", "s">>

\* the pieces of s between the occurrences of the separator character
RECURSIVE split(_, _)
split(s, sep) ==
    IF ~contains_char(s, sep) THEN <<s>>
    ELSE LET k == CHOOSE k \in 1..Len(s) : s[k] = sep /\ \A j \in 1..(k - 1) : s[j] # sep
         IN <<SubSeq(s, 1, k - 1)>> \o split(SubSeq(s, k + 1, Len(s)), sep)

\* the names a path is made of: its non-empty pieces between slashes
components(s) == SelectSeq(split(s, SLASH), LAMBDA c : c # <<>>)

\* Path::is_absolute
is_absolute(s) == Len(s) > 0 /\ s[1] = SLASH

\* PathBuf::join
path_join(base, rel) ==
    IF is_absolute(rel) THEN rel
    ELSE IF base = <<>> THEN rel
    ELSE IF base[Len(base)] = SLASH THEN base \o rel
    ELSE base \o <<SLASH>> \o rel

\* the text of a resolved location: a slash in front of every name
RECURSIVE to_string(_)
to_string(node) ==
    IF node = <<>> THEN <<SLASH>>
    ELSE IF Len(node) = 1 THEN <<SLASH>> \o node[1]
    ELSE to_string(SubSeq(node, 1, Len(node) - 1)) \o <<SLASH>> \o node[Len(node)]

\* names of the file system
DIR_W == <<"w">>
DIR_M == <<"m">>
DIR_G == <<"g">>
DIR_P == <<"p">>
DIR_C == <<"c">>
LINK_L == <<"l">>
FILE_F == <<"f">>
SAN_HTTPS == <<"h", "t", "t", "p", "s", "_", "_", "_", "h", "_", "r">>

\* the process's current directory
CWD == <<DIR_W>>

\* directories, directories that cannot be listed, plain files, symbolic links
FsDirs ==
    {<<>>, <<DIR_W>>, <<DIR_W, DIR_M>>, <<DIR_W, DIR_G>>, <<DIR_W, DIR_P>>, <<DIR_W, DIR_C>>,
     <<DIR_W, MANIFEST_CACHE>>, <<DIR_W, MANIFEST_CACHE, SAN_HTTPS>>,
     <<DIR_W, MANIFEST_CACHE, <<"g", "i", "t", "@", "h", "_", "r">> >>, <<DIR_W, MANIFEST_CACHE, URL_MANIFESTS>>}
FsUnreadable == {<<DIR_W, DIR_P>>}
FsPlainFiles == {<<DIR_W, FILE_F>>}
FsSymlinks == {[link |-> <<DIR_W, LINK_L>>, target |-> <<DIR_W, DIR_M>>]}

\* resolution of the names in rest, one after the other, starting at node:
\* . stays, .. goes to the parent, a symbolic link is followed, a missing
\* name or a name below a plain file fails
RECURSIVE walk(_, _)
walk(node, rest) ==
    IF rest = <<>> THEN Some(node)
    ELSE LET c == Head(rest)
             nxt == Append(node, c)
         IN IF c = DOT THEN walk(node, Tail(rest))
            ELSE IF c = DOTDOT
                 THEN walk(IF node = <<>> THEN <<>> ELSE SubSeq(node, 1, Len(node) - 1),
                           Tail(rest))
            ELSE IF \E l \in FsSymlinks : l.link = nxt
                 THEN walk((CHOOSE l \in FsSymlinks : l.link = nxt).target, Tail(rest))
            ELSE IF nxt \in FsDirs THEN walk(nxt, Tail(rest))
            ELSE IF nxt \in FsPlainFiles \cup files
                 THEN IF Tail(rest) = <<>> THEN Some(nxt) ELSE None
            ELSE None

\* lines 221-228: the path made absolute with the current directory
absolute_path(path) ==
    IF is_absolute(path) THEN path ELSE path_join(to_string(CWD), path)

\* Path::canonicalize on an absolute path
canonicalize(path) == walk(<<>>, components(path))

\* Path::exists
exists(path) == walk(IF is_absolute(path) THEN <<>> ELSE CWD, components(path)).some

\* error texts of add_manifest_source
ERR_CURRENT_DIR == "Failed to get current directory"
ERR_EXISTS == "Manifest source already exists"

\* lines 207-277: the validated path of a source, or the error of the validation
validated_path(source_type, path, cwd_ok) ==
    IF source_type \notin {"local", "git", "url"}
    THEN [ok |-> FALSE, val |-> "Invalid source type"]
    ELSE IF source_type = "local"
    THEN IF ~is_absolute(path) /\ ~cwd_ok
         THEN [ok |-> FALSE, val |-> ERR_CURRENT_DIR]
         ELSE LET canonical_path == canonicalize(absolute_path(path))
              IN IF ~canonical_path.some THEN [ok |-> FALSE, val |-> "Path does not exist or cannot be accessed"]
                 ELSE IF canonical_path.val \notin FsDirs
                      THEN [ok |-> FALSE, val |-> "Local manifest source must be a directory"]
                 ELSE IF canonical_path.val \in FsUnreadable
                      THEN [ok |-> FALSE, val |-> "Cannot read directory"]
                 ELSE [ok |-> TRUE, val |-> to_string(canonical_path.val)]
    ELSE IF source_type = "git"
    THEN IF /\ ~starts_with(path, HTTP_PREFIX)
            /\ ~starts_with(path, HTTPS_PREFIX)
            /\ ~starts_with(path, GIT_AT_PREFIX)
         THEN [ok |-> FALSE, val |-> "Git source must be a valid git URL"]
         ELSE [ok |-> TRUE, val |-> path]
    ELSE IF ~starts_with(path, HTTP_PREFIX) /\ ~starts_with(path, HTTPS_PREFIX)
         THEN [ok |-> FALSE, val |-> "URL source must be a valid HTTP/HTTPS URL"]
         ELSE [ok |-> TRUE, val |-> path]

\* add_manifest_source whose duplicate test compares the path as given
AddManifestSource_RawDuplicateCheck(source_type, path, branch, auto_update) ==
    /\ calls < MaxCalls
    /\ \E cwd_ok \in BOOLEAN :
        LET v == validated_path(source_type, path, cwd_ok)
            source_exists ==
                \E n \in 1..Len(manifest_sources) :
                    /\ manifest_sources[n].source_type = source_type
                    /\ manifest_sources[n].path = path
            call == [source_type |-> source_type, path |-> path]
        IN IF ~v.ok
           THEN /\ add_result' = [kind |-> "Err", val |-> v.val, call |-> call]
                /\ UNCHANGED manifest_sources
           ELSE IF source_exists
           THEN /\ add_result' = [kind |-> "Err", val |-> ERR_EXISTS, call |-> call]
                /\ UNCHANGED manifest_sources
           ELSE /\ manifest_sources' =
                       Append(manifest_sources,
                              [source_type |-> source_type, path |-> v.val,
                               branch |-> branch, auto_update |-> auto_update])
                /\ add_result' = [kind |-> "Ok", val |-> v.val, call |-> call]
    /\ calls' = calls + 1
    /\ UNCHANGED <<inputs, ivars, svars, lvars, idx, pc, cur, output, started, children, result>>
    /\ UNCHANGED <<files, find_result, load_result>>

\* add_manifest_source that stores the path as given instead of the validated path
AddManifestSource_StoresRawPath(source_type, path, branch, auto_update) ==
    /\ calls < MaxCalls
    /\ \E cwd_ok \in BOOLEAN :
        LET v == validated_path(source_type, path, cwd_ok)
            source_exists ==
                \E n \in 1..Len(manifest_sources) :
                    /\ manifest_sources[n].source_type = source_type
                    /\ manifest_sources[n].path = v.val
            call == [source_type |-> source_type, path |-> path]
        IN IF ~v.ok
           THEN /\ add_result' = [kind |-> "Err", val |-> v.val, call |-> call]
                /\ UNCHANGED manifest_sources
           ELSE IF source_exists
           THEN /\ add_result' = [kind |-> "Err", val |-> ERR_EXISTS, call |-> call]
                /\ UNCHANGED manifest_sources
           ELSE /\ manifest_sources' =
                       Append(manifest_sources,
                              [source_type |-> source_type, path |-> path,
                               branch |-> branch, auto_update |-> auto_update])
                /\ add_result' = [kind |-> "Ok", val |-> v.val, call |-> call]
    /\ calls' = calls + 1
    /\ UNCHANGED <<inputs, ivars, svars, lvars, idx, pc, cur, output, started, children, result>>
    /\ UNCHANGED <<files, find_result, load_result>>

\* lines 199-302: GlobalConfig::add_manifest_source
AddManifestSource(source_type, path, branch, auto_update) ==
    /\ calls < MaxCalls
    /\ \E cwd_ok \in BOOLEAN :
        LET v == validated_path(source_type, path, cwd_ok)
            source_exists ==
                \E n \in 1..Len(manifest_sources) :
                    /\ manifest_sources[n].source_type = source_type
                    /\ manifest_sources[n].path = v.val
            call == [source_type |-> source_type, path |-> path]
        IN IF ~v.ok
           THEN /\ add_result' = [kind |-> "Err", val |-> v.val, call |-> call]
                /\ UNCHANGED manifest_sources
           ELSE IF source_exists
           THEN /\ add_result' = [kind |-> "Err", val |-> ERR_EXISTS, call |-> call]
                /\ UNCHANGED manifest_sources
           ELSE /\ manifest_sources' =
                       Append(manifest_sources,
                              [source_type |-> source_type, path |-> v.val,
                               branch |-> branch, auto_update |-> auto_update])
                /\ add_result' = [kind |-> "Ok", val |-> v.val, call |-> call]
    /\ calls' = calls + 1
    /\ UNCHANGED <<inputs, ivars, svars, lvars, idx, pc, cur, output, started, children, result>>
    /\ UNCHANGED <<files, find_result, load_result>>

\* paths given on the command line or written in the configuration file
P_REL == <<"m">>
P_ABS == <<"/", "w", "/", "m">>
P_LINK == <<"/", "w", "/", "l">>
P_OTHER == <<"/", "w", "/", "g">>
U_HTTPS == HTTPS_PREFIX \o <<"h", "/", "r">>
U_SSH == GIT_AT_PREFIX \o <<"h", ":", "r">>
U_FTP == <<"f", "t", "p", ":", "/", "/", "h">>

SourceTypes == {"local", "git", "url", "svn"}
\* local paths: relative, absolute, with .., through the link, another
\* directory, a plain file, a missing name, a directory that cannot be listed
SourcePaths ==
    {P_REL, P_ABS, <<"/", "w", "/", "g", "/", ".", ".", "/", "m">>, P_LINK, P_OTHER,
     <<"/", "w", "/", "f">>, <<"/", "w", "/", "n">>, <<"/", "w", "/", "p">>,
     U_HTTPS, U_SSH, U_FTP}

\* the calls made: every type with every path, and one call naming a branch
AddCalls ==
    {[source_type |-> t, path |-> p, branch |-> None, auto_update |-> TRUE] :
         t \in SourceTypes, p \in SourcePaths}
    \cup {[source_type |-> "git", path |-> U_SSH, branch |-> Some(<<"b">>),
           auto_update |-> FALSE]}

ManifestSource(t, p) == [source_type |-> t, path |-> p, branch |-> None, auto_update |-> FALSE]

\* configurations the program starts from: none, the default one, one written
\* by hand with a relative path, one with two sources
InitialSources ==
    {<<>>,
     <<ManifestSource("local", P_ABS)>>,
     <<ManifestSource("local", P_REL)>>,
     <<ManifestSource("git", U_HTTPS), ManifestSource("local", P_OTHER)>>}

\* execute_actions and interpolate are not part of the run
RunnerIdle ==
    /\ repo \in Repos
    /\ info_args = <<>>
    /\ actions = <<>>
    /\ extra_args = None
    /\ force_spawn = FALSE
    /\ force_wait = FALSE
    /\ idx = 1
    /\ pc = "loop"
    /\ cur = NoCur
    /\ output = <<>>
    /\ started = <<>>
    /\ children = <<>>
    /\ result = [kind |-> "none"]
    /\ template = <<>>
    /\ once = None
    /\ twice = None

SourcesInit ==
    /\ manifest_sources \in InitialSources
    /\ files = {}
    /\ calls = 0
    /\ add_result = [kind |-> "none"]
    /\ find_result = [kind |-> "none"]
    /\ load_result = [kind |-> "none"]
    /\ RunnerIdle
    /\ StripIdle
    /\ LifeIdle

SourcesNext ==
    \E c \in AddCalls : AddManifestSource(c.source_type, c.path, c.branch, c.auto_update)

SpecSources == SourcesInit /\ [][SourcesNext]_vars

(***************************************************************************)
(* Looking a tool's manifest up: GlobalConfig::find_tool_manifest and      *)
(* load_tool_config of main.rs.                                            *)
(***************************************************************************)
MaxSources == 2

\* line 196: every '/', ':' and '.' becomes '_'
sanitize_url(url) ==
    [i \in 1..Len(url) |-> IF url[i] \in {"/", ":", "."} THEN "_" ELSE url[i]]

\* format!("{}.jsonc", tool_name)
manifest_file_name(tool_name) == tool_name \o JSONC_EXT

\* lines 160-161, 168-170, 177-179: where a source keeps the manifest of a tool
manifest_location(source, tool_name) ==
    IF source.source_type = "local"
    THEN path_join(source.path, manifest_file_name(tool_name))
    ELSE IF source.source_type = "git"
    THEN path_join(path_join(MANIFEST_CACHE, sanitize_url(source.path)),
                   manifest_file_name(tool_name))
    ELSE path_join(path_join(MANIFEST_CACHE, URL_MANIFESTS), manifest_file_name(tool_name))

\* find_from that gives up at the first source of unknown type
RECURSIVE find_from_StopsAtUnknown(_, _)
find_from_StopsAtUnknown(n, tool_name) ==
    IF n > Len(manifest_sources) THEN None
    ELSE IF manifest_sources[n].source_type \notin {"local", "git", "url"} THEN None
    ELSE IF exists(manifest_location(manifest_sources[n], tool_name))
         THEN Some(manifest_location(manifest_sources[n], tool_name))
    ELSE find_from_StopsAtUnknown(n + 1, tool_name)

\* lines 157-192: the loop over the sources, from source n on
RECURSIVE find_from(_, _)
find_from(n, tool_name) ==
    IF n > Len(manifest_sources) THEN None
    ELSE IF /\ manifest_sources[n].source_type \in {"local", "git", "url"}
            /\ exists(manifest_location(manifest_sources[n], tool_name))
         THEN Some(manifest_location(manifest_sources[n], tool_name))
    ELSE find_from(n + 1, tool_name)

\* lines 184-189: the warnings printed on the way, one per source of unknown
\* type visited before the loop ends
RECURSIVE warnings_from(_, _)
warnings_from(n, tool_name) ==
    IF n > Len(manifest_sources) THEN <<>>
    ELSE IF manifest_sources[n].source_type \notin {"local", "git", "url"}
         THEN <<manifest_sources[n].source_type>> \o warnings_from(n + 1, tool_name)
    ELSE IF exists(manifest_location(manifest_sources[n], tool_name)) THEN <<>>
    ELSE warnings_from(n + 1, tool_name)

\* GlobalConfig::find_tool_manifest
find_tool_manifest(tool_name) == find_from(1, tool_name)

\* GlobalConfig.default_manifest_dir
default_manifest_dir == P_ABS

\* a call of find_tool_manifest
FindToolManifest(tool_name) ==
    /\ find_result' = [kind |-> "Ok", tool |-> tool_name,
                       val |-> find_tool_manifest(tool_name),
                       warnings |-> warnings_from(1, tool_name)]
    /\ UNCHANGED <<inputs, ivars, svars, lvars, idx, pc, cur, output, started, children, result>>
    /\ UNCHANGED <<manifest_sources, files, calls, add_result, load_result>>

\* Config::load_from_path, the content of the file left aside
load_from_path(config_path) ==
    IF exists(config_path) THEN [kind |-> "Ok", path |-> config_path]
    ELSE [kind |-> "Err", path |-> config_path]

\* main.rs 102-104 and 159-171: the directory to fall back to, then
\* load_tool_config
LoadToolConfig(cli_config_dir, tool_name) ==
    /\ LET config_dir == IF cli_config_dir.some THEN cli_config_dir.val
                         ELSE default_manifest_dir
           found == find_tool_manifest(tool_name)
           loaded == IF found.some THEN load_from_path(found.val)
                     ELSE load_from_path(path_join(config_dir, manifest_file_name(tool_name)))
       IN load_result' = [kind |-> loaded.kind, path |-> loaded.path,
                          cli |-> cli_config_dir, tool |-> tool_name]
    /\ UNCHANGED <<inputs, ivars, svars, lvars, idx, pc, cur, output, started, children, result>>
    /\ UNCHANGED <<manifest_sources, files, calls, add_result, find_result>>

TOOL_T == <<"t">>
\* the tool that has manifests and one that has none
Tools == {TOOL_T, <<"o">>}

P_REL_G == <<"g">>
P_CONFIG == <<"/", "w", "/", "c">>

\* the sources a configuration file may hold: local directories written
\* absolute and relative, a git source, a url source, a source of a type the
\* program does not know
FindSourcePool ==
    {ManifestSource("local", P_ABS), ManifestSource("local", P_REL_G),
     ManifestSource("git", U_HTTPS), ManifestSource("url", U_HTTPS),
     ManifestSource("svn", U_HTTPS)}

\* the manifest files of tool t that may be present
ManifestFiles ==
    {<<DIR_W, DIR_M, manifest_file_name(TOOL_T)>>,
     <<DIR_W, DIR_G, manifest_file_name(TOOL_T)>>,
     <<DIR_W, MANIFEST_CACHE, SAN_HTTPS, manifest_file_name(TOOL_T)>>,
     <<DIR_W, MANIFEST_CACHE, URL_MANIFESTS, manifest_file_name(TOOL_T)>>,
     <<DIR_W, DIR_C, manifest_file_name(TOOL_T)>>}

\* values of --config-dir
CliConfigDirs == {None, Some(P_CONFIG), Some(P_ABS)}

FindInit ==
    /\ manifest_sources \in SeqsUpTo(FindSourcePool, MaxSources)
    /\ files \in SUBSET ManifestFiles
    /\ calls = 0
    /\ add_result = [kind |-> "none"]
    /\ find_result = [kind |-> "none"]
    /\ load_result = [kind |-> "none"]
    /\ RunnerIdle
    /\ StripIdle
    /\ LifeIdle

FindNext ==
    \/ \E t \in Tools : FindToolManifest(t)
    \/ \E d \in CliConfigDirs : \E t \in Tools : LoadToolConfig(d, t)

SpecFind == FindInit /\ [][FindNext]_vars

(***************************************************************************)
(* Config::strip_comments (src/src/config.rs), applied by load_from_path   *)
(* to the text of a manifest before it is parsed as JSON.                  *)
(***************************************************************************)
NEWLINE == "\n"
QUOTE == "\""
COMMENT_MARK == <<"/", "/">>

\* str::lines on a text without carriage returns: the pieces between line
\* feeds, without the empty piece after a final line feed
lines(text) ==
    LET pieces == split(text, NEWLINE)
    IN IF pieces[Len(pieces)] = <<>> THEN SubSeq(pieces, 1, Len(pieces) - 1) ELSE pieces

\* str::find("//"): the first position where the mark starts, 0 for None
find(line, pat) ==
    IF \E k \in 1..(Len(line) - Len(pat) + 1) : SubSeq(line, k, k + Len(pat) - 1) = pat
    THEN CHOOSE k \in 1..(Len(line) - Len(pat) + 1) :
             /\ SubSeq(line, k, k + Len(pat) - 1) = pat
             /\ \A j \in 1..(k - 1) : SubSeq(line, j, j + Len(pat) - 1) # pat
    ELSE 0

\* str::matches('"').count()
quote_count(text) == Cardinality({i \in 1..Len(text) : text[i] = QUOTE})

\* lines 77-90: one line of the text
strip_line(line) ==
    LET pos == find(line, COMMENT_MARK)
    IN IF pos # 0
       THEN LET before_comment == SubSeq(line, 1, pos - 1)
            IN IF quote_count(before_comment) % 2 = 0 THEN before_comment ELSE line
       ELSE line

\* lines 73-94: Config::strip_comments
strip_comments(text) ==
    join([i \in 1..Len(lines(text)) |-> strip_line(lines(text)[i])], NEWLINE)

\* json_content = Self::strip_comments(&content)
StripComments ==
    /\ ~stripped.some
    /\ stripped' = Some(strip_comments(content))
    /\ UNCHANGED <<inputs, ivars, gvars, lvars, content, idx, pc, cur, output, started,
                   children, result>>

\* what manifest lines are made of: a key, a quoted URL, a quoted value
\* without slashes, a comma, a comment
LinePieces ==
    {<<QUOTE, "k", QUOTE, ":">>,
     <<QUOTE, "h", ":", "/", "/", "x", QUOTE>>,
     <<QUOTE, "v", QUOTE>>,
     <<",">>,
     <<"/", "/", "c">>}

ManifestLines == {concat(ps) : ps \in SeqsUpTo(LinePieces, MaxPieces)}

\* texts of one line and of two lines
ManifestTexts ==
    ManifestLines \cup {a \o <<NEWLINE>> \o b : a \in ManifestLines, b \in ManifestLines}

StripInit ==
    /\ content \in ManifestTexts
    /\ stripped = None
    /\ RunnerIdle
    /\ SourcesIdle
    /\ LifeIdle

SpecStrip == StripInit /\ [][StripComments]_vars

(***************************************************************************)
(* main and the lifecycle command functions (src/src/main.rs,              *)
(* src/src/commands/*.rs): successive invocations of the program on one    *)
(* tools directory, each running one command to its end.                   *)
(***************************************************************************)
MaxCommands == 2

LINE_INSTALLING == "Installing"
LINE_PROCEEDING == "already exists. Proceeding with installation actions."
LINE_UPDATING == "Updating"
LINE_BUILDING == "Building"
LINE_RUNNING == "Running"
LINE_MISSING == "does not exist. Use 'install' command first."
LINE_ERROR == "Error"
ERR_CREATE_DIR == "Failed to create repo directory"

\* main.rs 110-133: the success message of a command
SuccessLine(name) ==
    IF name = "install" THEN "Installation completed successfully!"
    ELSE IF name = "update" THEN "Update completed successfully!"
    ELSE IF name = "build" THEN "Build completed successfully!"
    ELSE "execution completed!"

\* the call super::execute_actions(config, list, .., eargs, fspawn, fwait)
CallExecuteActions(list, eargs, fspawn, fwait) ==
    /\ actions' = list
    /\ extra_args' = eargs
    /\ force_spawn' = fspawn
    /\ force_wait' = fwait
    /\ idx' = 1
    /\ pc' = "loop"
    /\ cur' = NoCur
    /\ output' = <<>>
    /\ started' = <<>>
    /\ children' = [i \in 1..Len(list) |-> "none"]
    /\ result' = [kind |-> "none"]

\* the command function returns res without calling execute_actions
ReturnEarly(res) ==
    /\ actions' = <<>>
    /\ extra_args' = None
    /\ force_spawn' = FALSE
    /\ force_wait' = FALSE
    /\ idx' = 1
    /\ pc' = IF res.kind = "Ok" THEN "done" ELSE "failed"
    /\ cur' = NoCur
    /\ output' = <<>>
    /\ started' = <<>>
    /\ children' = <<>>
    /\ result' = res

\* install that returns when the directory is there and creates nothing
\* itself (the behaviour of commands.rs 7-38)
InstallCommand_ReturnsIfExists ==
    /\ pc = "idle"
    /\ runs < MaxCommands
    /\ runs' = runs + 1
    /\ IF repo_dir
       THEN /\ console' = console \o <<LINE_INSTALLING, LINE_PROCEEDING>>
            /\ command' = [name |-> "install", called |-> FALSE]
            /\ ReturnEarly([kind |-> "Ok"])
       ELSE /\ console' = Append(console, LINE_INSTALLING)
            /\ command' = [name |-> "install", called |-> TRUE]
            /\ CallExecuteActions(manifest.installation, None, FALSE, FALSE)
    /\ UNCHANGED <<repo, info_args, ivars, gvars, svars, manifest, repo_dir>>

\* commands/install.rs 6-38: install_command up to its call of execute_actions
InstallCommand ==
    /\ pc = "idle"
    /\ runs < MaxCommands
    /\ runs' = runs + 1
    /\ \E created \in BOOLEAN :
        IF ~repo_dir /\ ~created
        THEN /\ UNCHANGED repo_dir
             /\ console' = Append(console, LINE_INSTALLING)
             /\ command' = [name |-> "install", called |-> FALSE]
             /\ ReturnEarly([kind |-> "Err", msg |-> ERR_CREATE_DIR, command |-> <<>>,
                             os_error |-> TRUE, idx |-> 0])
        ELSE /\ repo_dir' = TRUE
             /\ console' = console \o <<LINE_INSTALLING, LINE_PROCEEDING>>
             /\ command' = [name |-> "install", called |-> TRUE]
             /\ CallExecuteActions(manifest.installation, None, FALSE, FALSE)
    /\ UNCHANGED <<repo, info_args, ivars, gvars, svars, manifest>>

\* update_command without the test of the repository directory
UpdateCommand_NoGuard ==
    /\ pc = "idle"
    /\ runs < MaxCommands
    /\ runs' = runs + 1
    /\ console' = Append(console, LINE_UPDATING)
    /\ command' = [name |-> "update", called |-> TRUE]
    /\ CallExecuteActions(manifest.update, None, FALSE, FALSE)
    /\ UNCHANGED <<repo, info_args, ivars, gvars, svars, manifest, repo_dir>>

\* commands/update.rs 5-28: update_command up to its call of execute_actions
UpdateCommand ==
    /\ pc = "idle"
    /\ runs < MaxCommands
    /\ runs' = runs + 1
    /\ IF ~repo_dir
       THEN /\ console' = console \o <<LINE_UPDATING, LINE_MISSING>>
            /\ command' = [name |-> "update", called |-> FALSE]
            /\ ReturnEarly([kind |-> "Ok"])
       ELSE /\ console' = Append(console, LINE_UPDATING)
            /\ command' = [name |-> "update", called |-> TRUE]
            /\ CallExecuteActions(manifest.update, None, FALSE, FALSE)
    /\ UNCHANGED <<repo, info_args, ivars, gvars, svars, manifest, repo_dir>>

\* commands/build.rs 5-28: build_command up to its call of execute_actions
BuildCommand ==
    /\ pc = "idle"
    /\ runs < MaxCommands
    /\ runs' = runs + 1
    /\ IF ~repo_dir
       THEN /\ console' = console \o <<LINE_BUILDING, LINE_MISSING>>
            /\ command' = [name |-> "build", called |-> FALSE]
            /\ ReturnEarly([kind |-> "Ok"])
       ELSE /\ console' = Append(console, LINE_BUILDING)
            /\ command' = [name |-> "build", called |-> TRUE]
            /\ CallExecuteActions(manifest.build, None, FALSE, FALSE)
    /\ UNCHANGED <<repo, info_args, ivars, gvars, svars, manifest, repo_dir>>

\* commands/run.rs 5-34: run_command up to its call of execute_actions
RunCommand(args, fspawn, fwait) ==
    /\ pc = "idle"
    /\ runs < MaxCommands
    /\ runs' = runs + 1
    /\ IF ~repo_dir
       THEN /\ console' = console \o <<LINE_RUNNING, LINE_MISSING>>
            /\ command' = [name |-> "run", called |-> FALSE]
            /\ ReturnEarly([kind |-> "Ok"])
       ELSE /\ console' = Append(console, LINE_RUNNING)
            /\ command' = [name |-> "run", called |-> TRUE]
            /\ CallExecuteActions(manifest.run, Some(args), fspawn, fwait)
    /\ UNCHANGED <<repo, info_args, ivars, gvars, svars, manifest, repo_dir>>

\* main.rs 106-134, 156: the command function has returned; `?` ends main
\* with the error, otherwise the success message is printed
MainFinish ==
    /\ pc \in {"done", "failed"}
    /\ command.name # "none"
    /\ console' = Append(console, IF result.kind = "Ok" THEN SuccessLine(command.name)
                                  ELSE LINE_ERROR)
    /\ pc' = "idle"
    /\ UNCHANGED <<inputs, ivars, gvars, svars, manifest, repo_dir, command, runs,
                   idx, cur, output, started, children, result>>

\* the manifest of the tool: one wait-mode action per list, a detached one
\* for run, the installation list also empty
LifeManifests ==
    {[installation |-> i,
      update |-> <<[seq_id |-> 20, command |-> CMD_BARE, spawn |-> FALSE]>>,
      build |-> <<[seq_id |-> 30, command |-> CMD_BARE, spawn |-> FALSE]>>,
      run |-> <<[seq_id |-> 40, command |-> CMD_RELATIVE, spawn |-> TRUE]>>] :
         i \in {<<>>, <<[seq_id |-> 10, command |-> CMD_WITH_ARGS, spawn |-> FALSE]>>}}

\* the run commands given: no arguments, an info argument, --wait
RunCalls ==
    {[args |-> <<>>, spawn |-> FALSE, wait |-> FALSE],
     [args |-> <<ARG_HELP>>, spawn |-> TRUE, wait |-> FALSE],
     [args |-> <<ARG_X>>, spawn |-> FALSE, wait |-> TRUE]}

LifeInit ==
    /\ manifest \in LifeManifests
    /\ repo_dir \in BOOLEAN
    /\ command = [name |-> "none", called |-> FALSE]
    /\ console = <<>>
    /\ runs = 0
    /\ repo \in Repos
    /\ info_args = <<>>
    /\ actions = <<>>
    /\ extra_args = None
    /\ force_spawn = FALSE
    /\ force_wait = FALSE
    /\ idx = 1
    /\ pc = "idle"
    /\ cur = NoCur
    /\ output = <<>>
    /\ started = <<>>
    /\ children = <<>>
    /\ result = [kind |-> "none"]
    /\ template = <<>>
    /\ once = None
    /\ twice = None
    /\ SourcesIdle
    /\ StripIdle

LifeNext ==
    \/ InstallCommand
    \/ UpdateCommand
    \/ BuildCommand
    \/ \E c \in RunCalls : RunCommand(c.args, c.spawn, c.wait)
    \/ Next
    \/ MainFinish

SpecLife == LifeInit /\ [][LifeNext]_vars

TypeOK ==
    /\ idx \in 1..(Len(actions) + 1)
    /\ pc \in {"idle", "loop", "spawning", "executing", "waiting", "done", "failed"}
    /\ result.kind \in {"none", "Ok", "Err"}

(***************************************************************************)
(* Properties of execute_actions.                                          *)
(***************************************************************************)
\* the indices of the actions that have been announced or launched so far
Announced == {output[n].idx : n \in 1..Len(output)}
Launched == {started[n].idx : n \in 1..Len(started)}

\* the launch record of action k, when it has one
WaitModeLaunched(k) == \E n \in 1..Len(started) : started[n].idx = k /\ started[n].mode = "wait"

\* action k has failed: its launch failed, or its wait-mode child exited non-zero
ActionFailed(k) ==
    \/ result.kind = "Err" /\ result.idx = k
    \/ WaitModeLaunched(k) /\ children[k] = "exit_fail"

\* the current iteration has resolved its command and mode
Decided == cur.idx # 0

WHITESPACE == {SPACE, TAB}

\* C1: once action k has failed (launch failure in either mode, or non-zero
\* exit in wait mode), execute_actions never returns Ok, a returned error
\* names action k, and no action after k is announced or launched.
C1_FailFast ==
    \A k \in 1..Len(actions) :
        ActionFailed(k) =>
            /\ result.kind # "Ok"
            /\ pc \in {"waiting", "failed"}
            /\ (pc = "failed" <=> result.kind = "Err")
            /\ result.kind = "Err" => result.idx = k
            /\ \A j \in (k + 1)..Len(actions) :
                   /\ j \notin Announced
                   /\ j \notin Launched
                   /\ children[j] = "none"

C1_Witness ==
    /\ Len(actions) = 2
    /\ result.kind = "Err"
    /\ result.msg = "Command failed"
    /\ result.idx = 1

\* C2: an action whose spawn flag is false runs in wait mode, whatever
\* force_spawn, force_wait, extra_args and info_args are.
C2_NoSpawnFlagWaits ==
    /\ Decided /\ ~cur.spawn => cur.mode = "wait" /\ pc # "spawning"
    /\ \A n \in 1..Len(started) :
           ~actions[started[n].idx].spawn => started[n].mode = "wait"

C2_Witness ==
    /\ pc = "waiting"
    /\ ~cur.spawn
    /\ force_spawn
    /\ ~force_wait
    /\ extra_args = None
    /\ started[Len(started)].mode = "wait"

\* C3: force_wait = true puts every action in wait mode, also when
\* force_spawn is set as well.
C3_ForceWaitWins ==
    force_wait =>
        /\ Decided => cur.mode = "wait" /\ pc # "spawning"
        /\ \A n \in 1..Len(started) : started[n].mode = "wait"

C3_Witness ==
    /\ force_wait
    /\ force_spawn
    /\ pc = "waiting"
    /\ cur.spawn
    /\ cur.mode = "wait"

\* C4 as stated: force_wait = false with force_spawn = true yields spawn mode
\* for every value of action.spawn.
C4_Original ==
    ~force_wait /\ force_spawn /\ Decided => cur.mode = "spawn"

\* C4 amended: force_wait = false with force_spawn = true yields spawn mode
\* for every action whose spawn flag is true, whatever extra_args and
\* info_args are.
C4_ForceSpawn ==
    ~force_wait /\ force_spawn =>
        /\ Decided /\ cur.spawn => cur.mode = "spawn" /\ pc # "executing"
        /\ \A n \in 1..Len(started) :
               actions[started[n].idx].spawn => started[n].mode = "spawn"

C4_Witness ==
    /\ ~force_wait
    /\ force_spawn
    /\ cur.idx = idx
    /\ cur.spawn
    /\ extra_args = Some(<<ARG_HELP>>)
    /\ info_args = <<>>
    /\ pc = "spawning"

\* C5: with spawn = true and no override, absent or empty extra_args give
\* spawn mode, whatever the info-arg table contains.
C5_NoArgsSpawns ==
    /\ ~force_wait
    /\ ~force_spawn
    /\ Decided
    /\ cur.spawn
    /\ (~extra_args.some \/ Len(extra_args.val) = 0)
    => cur.mode = "spawn" /\ pc # "executing"

C5_Witness ==
    /\ ~force_wait
    /\ ~force_spawn
    /\ cur.idx = idx
    /\ cur.spawn
    /\ extra_args = Some(<<>>)
    /\ info_args # <<>>
    /\ pc = "spawning"

\* C6: with spawn = true, no override and non-empty extra_args, the mode is
\* wait exactly when some element of extra_args is equal, as a whole string,
\* to a member of the effective info-arg set; otherwise it is spawn.
C6_ExactInfoMatch ==
    /\ ~force_wait
    /\ ~force_spawn
    /\ Decided
    /\ cur.spawn
    /\ extra_args.some
    /\ Len(extra_args.val) > 0
    => LET eff == IF Len(info_args) = 0 THEN default_info_args ELSE info_args
           hit == \E i \in 1..Len(extra_args.val) : \E j \in 1..Len(eff) :
                      /\ Len(extra_args.val[i]) = Len(eff[j])
                      /\ \A c \in 1..Len(eff[j]) : extra_args.val[i][c] = eff[j][c]
       IN /\ cur.mode \in {"wait", "spawn"}
          /\ cur.mode = "wait" <=> hit

\* --help contains the configured info argument -h as a substring, and is
\* not equal to it: the action is spawned.
C6_Witness ==
    /\ ~force_wait
    /\ ~force_spawn
    /\ cur.idx = idx
    /\ cur.spawn
    /\ extra_args = Some(<<ARG_X, ARG_HELP>>)
    /\ info_args = <<ARG_H>>
    /\ pc = "spawning"

\* C7: the effective info-arg set is the configured info_args when that
\* table is non-empty and the six built-in flags only when it is empty: a
\* non-empty table replaces the built-in flags entirely.
C7_EffectiveInfoArgs ==
    /\ ~force_wait
    /\ ~force_spawn
    /\ Decided
    /\ cur.spawn
    /\ extra_args.some
    /\ Len(extra_args.val) > 0
    => LET given == {extra_args.val[i] : i \in 1..Len(extra_args.val)}
           configured == {info_args[j] : j \in 1..Len(info_args)}
           builtin == {ARG_HELP, ARG_H, ARG_VERSION, ARG_V, ARG_LIST, ARG_SHOW}
       IN IF configured # {}
          THEN cur.mode = "wait" <=> given \cap configured # {}
          ELSE cur.mode = "wait" <=> given \cap builtin # {}

\* --help is given, the configured table is non-empty and lacks --help
C7_Witness ==
    /\ ~force_wait
    /\ ~force_spawn
    /\ cur.idx = idx
    /\ cur.spawn
    /\ extra_args = Some(<<ARG_HELP>>)
    /\ info_args = <<ARG_X, ARG_H>>
    /\ cur.mode = "spawn"
    /\ pc = "spawning"

\* the mode decided for each action of this call so far, with its spawn flag
Decisions ==
    {[idx |-> started[n].idx, spawn |-> actions[started[n].idx].spawn,
      mode |-> started[n].mode] : n \in 1..Len(started)}
    \cup (IF Decided THEN {[idx |-> cur.idx, spawn |-> cur.spawn, mode |-> cur.mode]}
          ELSE {})

\* C8: within one call, two actions with the same spawn flag get the same
\* mode, whatever their position, the actions that ran before them and the
\* outcome of those actions.
C8_NoHiddenState ==
    \A d1 \in Decisions : \A d2 \in Decisions :
        d1.spawn = d2.spawn => d1.mode = d2.mode

C8_Witness ==
    /\ Len(started) = 1
    /\ started[1].mode = "spawn"
    /\ children[1] = "exit_fail"
    /\ cur.idx = 2
    /\ cur.spawn
    /\ cur.mode = "spawn"
    /\ actions[1].command # actions[2].command

\* the Command is `sh -c <final command>`
ShellInvoked(c, fc) == c.program = SH /\ c.args = <<DASH_C, fc>>

\* the Command is the final command as a bare program without arguments
DirectInvoked(c, fc) == c.program = fc /\ c.args = <<>>

\* C9 as stated: a final command that does not start with ./ and contains
\* any whitespace character is run through a shell.
C9_Original ==
    /\ Decided
    /\ ~starts_with(cur.full_command, RELATIVE_PREFIX)
    /\ \E i \in 1..Len(cur.full_command) : cur.full_command[i] \in WHITESPACE
    => ShellInvoked(cur.cmd, cur.full_command)

\* C9 amended: a final command that does not start with ./ and contains a
\* space character (U+0020) is run through a shell.
C9_SpaceMeansShell ==
    /\ (/\ Decided
        /\ ~starts_with(cur.full_command, RELATIVE_PREFIX)
        /\ \E i \in 1..Len(cur.full_command) : cur.full_command[i] = SPACE
        => ShellInvoked(cur.cmd, cur.full_command))
    /\ \A n \in 1..Len(started) :
           LET fc == full_command(actions[started[n].idx], extra_args)
           IN (/\ ~starts_with(fc, RELATIVE_PREFIX)
               /\ \E i \in 1..Len(fc) : fc[i] = SPACE)
              => ShellInvoked(started[n].cmd, fc)

C9_Witness ==
    /\ Len(started) > 0
    /\ actions[started[1].idx].command = CMD_WITH_ARGS
    /\ extra_args = None
    /\ started[1].cmd = [program |-> SH, args |-> <<DASH_C, <<"a", " ", "u">> >>]

\* C10: a final command C starting with ./ is run as sh -c C; otherwise a C
\* containing a space is run as sh -c C; otherwise C is run directly as a
\* bare program with no arguments. The ./ test comes first, and both shell
\* branches pass C as one argument.
C10_ThreeWayClassification ==
    /\ Decided =>
        LET fc == cur.full_command
        IN IF Len(fc) >= 2 /\ fc[1] = "." /\ fc[2] = "/"
           THEN cur.branch = "relative" /\ ShellInvoked(cur.cmd, fc)
           ELSE IF \E i \in 1..Len(fc) : fc[i] = SPACE
                THEN cur.branch = "with_args" /\ ShellInvoked(cur.cmd, fc)
                ELSE cur.branch = "simple" /\ DirectInvoked(cur.cmd, fc)
    /\ \A n \in 1..Len(started) :
        LET fc == full_command(actions[started[n].idx], extra_args)
        IN IF (Len(fc) >= 2 /\ fc[1] = "." /\ fc[2] = "/")
              \/ \E i \in 1..Len(fc) : fc[i] = SPACE
           THEN ShellInvoked(started[n].cmd, fc)
           ELSE DirectInvoked(started[n].cmd, fc)

\* ./r -x both starts with ./ and contains a space
C10_Witness ==
    /\ Len(started) = 1
    /\ actions[1].command = CMD_RELATIVE
    /\ extra_args = Some(<<ARG_X>>)
    /\ cur.idx = 1
    /\ cur.branch = "relative"
    /\ started[1].cmd.args = <<DASH_C, <<".", "/", "r", " ", "-", "x">> >>

(***************************************************************************)
(* Properties of Config::interpolate.                                      *)
(***************************************************************************)
\* token occurs in text at position k
OccursAt(text, token, k) ==
    /\ k >= 1
    /\ k + Len(token) - 1 <= Len(text)
    /\ \A c \in 1..Len(token) : text[k + c - 1] = token[c]

\* one left-to-right pass over the template that substitutes both tokens and
\* never looks at the text it has inserted
RECURSIVE SinglePass(_, _, _)
SinglePass(text, name, url) ==
    IF text = <<>> THEN <<>>
    ELSE IF OccursAt(text, URL_TOKEN, 1)
         THEN url \o SinglePass(SubSeq(text, Len(URL_TOKEN) + 1, Len(text)), name, url)
         ELSE IF OccursAt(text, NAME_TOKEN, 1)
              THEN name \o SinglePass(SubSeq(text, Len(NAME_TOKEN) + 1, Len(text)), name, url)
              ELSE <<Head(text)>> \o SinglePass(Tail(text), name, url)

ContainsToken(text, token) == \E k \in 1..Len(text) : OccursAt(text, token, k)

BRACKETS == {"[", "]"}

BracketFree(text) == \A i \in 1..Len(text) : text[i] \notin BRACKETS

\* every bracket character of the text lies inside a complete URL or name token
OnlyWholeTokens(text) ==
    \A i \in 1..Len(text) :
        text[i] \in BRACKETS =>
            \E k \in 1..i :
                \/ OccursAt(text, URL_TOKEN, k) /\ i < k + Len(URL_TOKEN)
                \/ OccursAt(text, NAME_TOKEN, k) /\ i < k + Len(NAME_TOKEN)

\* C11: interpolate returns the template with every occurrence of the URL
\* token replaced by the repository url and every occurrence of the name
\* token replaced by the repository name, and every other character, other
\* bracket tokens included, unchanged.
C11_ReplacesEveryOccurrence ==
    once.some => once.val = SinglePass(template, repo.name, repo.url)

\* C12: text inserted by a substitution is not scanned again: the template
\* that is exactly one token yields exactly the metadata value, also when
\* that value contains a placeholder token.
C12_InsertedTextLiteral ==
    once.some =>
        /\ template = URL_TOKEN => once.val = repo.url
        /\ template = NAME_TOKEN => once.val = repo.name

C14_Original ==
    /\ twice.some
    /\ ~ContainsToken(repo.name, URL_TOKEN)
    /\ ~ContainsToken(repo.name, NAME_TOKEN)
    /\ ~ContainsToken(repo.url, URL_TOKEN)
    /\ ~ContainsToken(repo.url, NAME_TOKEN)
    => twice.val = once.val

\* C14 amended: when every bracket character of the template belongs to a
\* complete URL or name token and neither the name nor the url contains a
\* bracket character, interpolating the result again returns it unchanged.
C14_Idempotent ==
    /\ twice.some
    /\ OnlyWholeTokens(template)
    /\ BracketFree(repo.name)
    /\ BracketFree(repo.url)
    => twice.val = once.val

C14_Witness ==
    /\ twice.some
    /\ template = NAME_TOKEN \o NAME_TOKEN
    /\ repo = [name |-> <<"t">>, url |-> <<"u">>]
    /\ twice.val = <<"t", "t">>

(***************************************************************************)
(* Properties of execute_actions, continued.                               *)
(***************************************************************************)
\* base followed, for each argument in order, by one space and the argument
RECURSIVE AppendEach(_, _)
AppendEach(base, args) ==
    IF args = <<>> THEN base
    ELSE AppendEach(base \o <<SPACE>> \o Head(args), Tail(args))

\* the final command the claim describes for action k
ExpectedCommand(k) ==
    IF extra_args.some /\ Len(extra_args.val) > 0
    THEN AppendEach(interpolate(actions[k].command), extra_args.val)
    ELSE interpolate(actions[k].command)

\* C15: for every action, the final command is the interpolated command
\* followed by one space and the extra arguments joined by single spaces in
\* the order supplied when extra_args is present and non-empty, and the
\* interpolated command exactly otherwise; the extra arguments are appended
\* after interpolation and are not interpolated themselves.
C15_ExtraArgsAppended ==
    /\ Decided => cur.full_command = ExpectedCommand(cur.idx)
    /\ \A n \in 1..Len(output) :
           output[n].kind = "Executing" => output[n].text = ExpectedCommand(output[n].idx)
    /\ \A n \in 1..Len(started) :
           \/ started[n].cmd.program = ExpectedCommand(started[n].idx)
           \/ started[n].cmd.args = <<DASH_C, ExpectedCommand(started[n].idx)>>

\* x-[[repo.name]] run with the arguments [[repo.name]] and -x
C15_Witness ==
    /\ Len(started) = 1
    /\ actions[1].command = CMD_BARE
    /\ extra_args = Some(<<NAME_TOKEN, ARG_X>>)
    /\ started[1].cmd.args = <<DASH_C, <<"x", "-", "t", " ">> \o NAME_TOKEN \o <<" ", "-", "x">> >>

\* the acknowledgment lines printed for action k
Acknowledged(k) ==
    \E n \in 1..Len(output) : output[n].idx = k /\ output[n].kind \in {"Completed", "Spawned"}

\* nothing of an action after k has been announced or launched
NothingAfter(k) ==
    \A j \in (k + 1)..Len(actions) :
        j \notin Announced /\ j \notin Launched /\ children[j] = "none"

\* C16: the subprocesses launched so far are those of a prefix of the action
\* list, in list order whatever the seq_id values, each launched once; a
\* call that returns Ok has launched every action.
C16_LaunchedIsPrefix ==
    /\ Len(started) <= Len(actions)
    /\ \A n \in 1..Len(started) :
           /\ started[n].idx = n
           /\ started[n].cmd = build_cmd(ExpectedCommand(n))
    /\ result.kind = "Ok" => Len(started) = Len(actions)

\* three actions launched in list order, their seq-ids being 30, 10, 20
C16_Witness ==
    /\ Len(started) = 3
    /\ actions[1].seq_id = 30
    /\ actions[2].seq_id = 10
    /\ actions[3].seq_id = 20
    /\ started[1].idx = 1
    /\ started[2].idx = 2
    /\ started[3].idx = 3

\* C17: from the launch of a wait-mode action until its child has terminated
\* and its exit status has been examined, the runner stays at that action:
\* it prints no acknowledgment for it and announces and launches no later
\* action.
C17_WaitIsSynchronous ==
    \A n \in 1..Len(started) :
        LET k == started[n].idx
        IN /\ started[n].mode = "wait"
           /\ (children[k] = "running" \/ (pc = "waiting" /\ idx = k))
           => /\ pc = "waiting"
              /\ idx = k
              /\ ~Acknowledged(k)
              /\ NothingAfter(k)

C17_Witness ==
    /\ Len(actions) = 3
    /\ pc = "waiting"
    /\ idx = 1
    /\ Len(started) = 1
    /\ started[1].mode = "wait"
    /\ children[1] = "exit_ok"

\* C18: a successfully launched spawn-mode child is never awaited: the
\* runner has already acknowledged it and moved past it, whatever the child
\* does later, the runner is able to take its next step, and the child's exit
\* status never becomes the error of the call.
C18_SpawnFireAndForget ==
    /\ \A n \in 1..Len(started) :
           LET k == started[n].idx
           IN started[n].mode = "spawn" =>
                  /\ idx > k
                  /\ Acknowledged(k)
                  /\ ~(result.kind = "Err" /\ result.idx = k)
    /\ pc = "waiting" => cur.mode = "wait"
    /\ pc = "loop" /\ idx <= Len(actions) => ENABLED BeginAction
    /\ pc = "loop" /\ idx > Len(actions) => ENABLED ReturnOk

\* the call returned Ok, after running a third action, although the first
\* detached child failed and the second is still running
C18_Witness ==
    /\ Len(started) = 3
    /\ started[1].mode = "spawn"
    /\ started[2].mode = "spawn"
    /\ started[3].mode = "wait"
    /\ children[1] = "exit_fail"
    /\ children[2] = "running"
    /\ result.kind = "Ok"

\* C19: when the child of a wait-mode action exits with a failure status the
\* runner cannot acknowledge the action, and the error it returns carries the
\* fully resolved command (interpolated template plus extra arguments); no
\* later action runs.
C19_CommandFailure ==
    /\ \A k \in 1..Len(actions) :
           WaitModeLaunched(k) /\ children[k] = "exit_fail" =>
               /\ ~ENABLED WaitSuccess
               /\ pc = "waiting" => ENABLED WaitFailure
               /\ pc = "failed" =>
                      /\ result.kind = "Err"
                      /\ result.msg = "Command failed"
                      /\ result.idx = k
               /\ ~Acknowledged(k)
               /\ NothingAfter(k)
    /\ result.kind = "Err" /\ ~result.os_error =>
           /\ result.msg = "Command failed"
           /\ result.command = ExpectedCommand(result.idx)
           /\ WaitModeLaunched(result.idx)
           /\ children[result.idx] = "exit_fail"

C19_Witness ==
    /\ Len(actions) = 2
    /\ actions[1].command = CMD_BARE
    /\ extra_args = Some(<<ARG_X>>)
    /\ result.kind = "Err"
    /\ result.idx = 1
    /\ result.command = <<"x", "-", "t", " ", "-", "x">>
    /\ children[1] = "exit_fail"

\* C20: when the OS cannot start the subprocess of an action, in spawn mode
\* or in wait mode, the call returns an error carrying the OS error as
\* context, no Completed or Spawned line is printed for the action and no
\* later action runs.
C20_LaunchFailure ==
    /\ \A k \in 1..Len(actions) :
           children[k] = "launch_failed" =>
               /\ pc = "failed"
               /\ result.kind = "Err"
               /\ result.idx = k
               /\ result.os_error
               /\ result.msg = (IF cur.mode = "spawn" THEN "Failed to spawn command"
                                ELSE "Failed to execute command")
               /\ result.command = ExpectedCommand(k)
               /\ k \notin Launched
               /\ ~Acknowledged(k)
               /\ NothingAfter(k)
    /\ result.kind = "Err" /\ result.os_error => children[result.idx] = "launch_failed"

C20_Witness ==
    /\ Len(actions) = 2
    /\ children[1] = "launch_failed"
    /\ cur.mode = "spawn"
    /\ result.kind = "Err"
    /\ result.msg = "Failed to spawn command"

\* the three lines of action k sit at positions 3k-2, 3k-1 and 3k of the output
LineKind(n) ==
    IF n % 3 = 1 THEN {"Step"}
    ELSE IF n % 3 = 2 THEN {"Executing"}
    ELSE IF started[(n + 2) \div 3].mode = "spawn" THEN {"Spawned"} ELSE {"Completed"}

\* every action of the list has been launched and no child awaited by the
\* runner has failed
AllSucceeded ==
    /\ Len(started) = Len(actions)
    /\ \A n \in 1..Len(started) :
           started[n].mode = "wait" => children[started[n].idx] = "exit_ok"

\* C21: the output is, action by action in list order, the Step line, the
\* Executing line and the acknowledgment (Spawned in spawn mode, Completed in
\* wait mode); a call that returns Ok has acknowledged every action; and when
\* every action has succeeded the call cannot fail and returns Ok.
C21_ProgressOrdering ==
    /\ \A n \in 1..Len(output) :
           /\ output[n].idx = (n + 2) \div 3
           /\ output[n].kind \in LineKind(n)
    /\ result.kind = "Ok" =>
           /\ \A k \in 1..Len(actions) : Acknowledged(k)
           /\ Len(output) = 3 * Len(actions)
    /\ AllSucceeded =>
           /\ result.kind # "Err"
           /\ pc \in {"waiting", "loop", "done"}
           /\ pc = "waiting" => ENABLED WaitSuccess /\ ~ENABLED WaitFailure
           /\ pc = "loop" => ENABLED ReturnOk /\ ~ENABLED BeginAction
           /\ pc = "done" => result.kind = "Ok"

\* three actions, spawn, wait, spawn: nine lines and Ok
C21_Witness ==
    /\ Len(actions) = 3
    /\ result.kind = "Ok"
    /\ Len(output) = 9
    /\ output[3].kind = "Spawned"
    /\ output[6].kind = "Completed"
    /\ output[9].kind = "Spawned"
    /\ output[7].kind = "Step"
    /\ output[7].idx = 3

\* extra_args is present and holds at least one argument
HasExtraArgs == extra_args.some /\ Len(extra_args.val) > 0

\* C30: when extra_args is non-empty the final command of every action
\* contains a space and is run as sh -c <final command>; the direct branch is
\* taken only when extra_args is absent or empty.
C30_ExtraArgsMeanShell ==
    /\ HasExtraArgs =>
           /\ Decided =>
                  /\ \E i \in 1..Len(cur.full_command) : cur.full_command[i] = SPACE
                  /\ cur.branch # "simple"
                  /\ ShellInvoked(cur.cmd, cur.full_command)
           /\ \A n \in 1..Len(started) :
                  /\ started[n].cmd.program = SH
                  /\ Len(started[n].cmd.args) = 2
                  /\ started[n].cmd.args[1] = DASH_C
                  /\ \E i \in 1..Len(started[n].cmd.args[2]) : started[n].cmd.args[2][i] = SPACE
    /\ Decided /\ (cur.branch = "simple" \/ DirectInvoked(cur.cmd, cur.full_command))
           => ~HasExtraArgs
    /\ \A n \in 1..Len(started) : started[n].cmd.args = <<>> => ~HasExtraArgs

\* the bare executable x-t run with one empty argument: sh -c "x-t "
C30_Witness ==
    /\ Len(started) = 1
    /\ actions[1].command = CMD_BARE
    /\ extra_args = Some(<<ARG_EMPTY>>)
    /\ cur.branch = "with_args"
    /\ started[1].cmd = [program |-> SH, args |-> <<DASH_C, <<"x", "-", "t", " ">> >>]

\* the child of a wait-mode action terminates
WaitChildExit ==
    \E i \in 1..Len(actions) : \E status \in {"exit_ok", "exit_fail"} :
        WaitModeLaunched(i) /\ ChildExit(i, status)

\* execute_actions has returned
Returned == pc \in {"done", "failed"}

\* C22: if every wait-mode child that is running eventually terminates the
\* call returns, whatever the spawn-mode children do; and while a wait-mode
\* child is running the runner can take no step at all: the call has not
\* returned and nothing of a later action has been announced or launched.
C22_Termination ==
    /\ WF_vars(WaitChildExit) => <>Returned
    /\ [](\A k \in 1..Len(actions) :
              WaitModeLaunched(k) /\ children[k] = "running" =>
                  /\ ~ENABLED RunnerStep
                  /\ ~Returned
                  /\ result.kind = "none"
                  /\ NothingAfter(k))

\* the call has returned Ok while both detached children are still running
C22_Witness ==
    /\ Len(started) = 3
    /\ started[1].mode = "spawn"
    /\ started[2].mode = "wait"
    /\ started[3].mode = "spawn"
    /\ children[1] = "running"
    /\ children[2] = "exit_ok"
    /\ children[3] = "running"
    /\ pc = "done"

(***************************************************************************)
(* Properties of the manifest sources.                                     *)
(***************************************************************************)
\* no two entries of manifest_sources have the same source type and path
NoDuplicateSources ==
    \A a \in 1..Len(manifest_sources) : \A b \in 1..Len(manifest_sources) :
        a # b => \/ manifest_sources[a].source_type # manifest_sources[b].source_type
                 \/ manifest_sources[a].path # manifest_sources[b].path

\* the validated path of a call that passes validation: the canonical
\* absolute path of a local directory, the URL as given for git and url
CanonicalOf(call) ==
    IF call.source_type = "local"
    THEN LET c == canonicalize(absolute_path(call.path))
         IN IF c.some /\ c.val \in FsDirs \ FsUnreadable THEN Some(to_string(c.val)) ELSE None
    ELSE IF call.source_type = "git"
    THEN IF \E pre \in {HTTP_PREFIX, HTTPS_PREFIX, GIT_AT_PREFIX} : starts_with(call.path, pre)
         THEN Some(call.path) ELSE None
    ELSE IF call.source_type = "url"
    THEN IF \E pre \in {HTTP_PREFIX, HTTPS_PREFIX} : starts_with(call.path, pre)
         THEN Some(call.path) ELSE None
    ELSE None

\* C23: manifest_sources never holds two entries with the same source type
\* and path, and a call whose validated path equals the path of an entry of
\* the same type that is already there returns the 'already exists' error.
C23_NoDuplicateSources ==
    /\ []NoDuplicateSources
    /\ [][calls' = calls + 1 =>
            LET r == add_result'
                v == CanonicalOf(r.call)
                present == \E n \in 1..Len(manifest_sources) :
                               /\ manifest_sources[n].source_type = r.call.source_type
                               /\ manifest_sources[n].path = v.val
            IN /\ v.some /\ present /\ r.val # ERR_CURRENT_DIR =>
                      r.kind = "Err" /\ r.val = ERR_EXISTS
               /\ r.kind = "Err" /\ r.val = ERR_EXISTS => v.some /\ present]_vars

\* /w/m is configured; the symbolic link /w/l, which leads to it, is refused
C23_Witness ==
    /\ manifest_sources = <<ManifestSource("local", P_ABS)>>
    /\ add_result.kind = "Err"
    /\ add_result.val = ERR_EXISTS
    /\ add_result.call = [source_type |-> "local", path |-> P_LINK]

\* C24: a call that returns an error leaves manifest_sources as it was; a
\* call that returns Ok appends exactly one entry, of the type given and
\* with the returned validated path; and every bad input is an error.
C24_AllOrNothing ==
    [][calls' = calls + 1 =>
        LET r == add_result'
            n == Len(manifest_sources)
        IN /\ r.kind \in {"Ok", "Err"}
           /\ r.kind = "Err" => manifest_sources' = manifest_sources
           /\ r.kind = "Ok" =>
                  /\ Len(manifest_sources') = n + 1
                  /\ SubSeq(manifest_sources', 1, n) = manifest_sources
                  /\ manifest_sources'[n + 1].source_type = r.call.source_type
                  /\ manifest_sources'[n + 1].path = r.val
           /\ ~CanonicalOf(r.call).some => r.kind = "Err"]_vars

\* the relative path m was added as /w/m after a malformed git URL was refused
C24_Witness ==
    /\ calls = 2
    /\ Len(manifest_sources) = 1
    /\ add_result.kind = "Ok"
    /\ add_result.call = [source_type |-> "local", path |-> P_REL]
    /\ add_result.val = P_ABS
    /\ manifest_sources[1].path = P_ABS

\* the file a source has for a tool is present: <path>/<tool>.jsonc for a
\* local source, the cache location under the current directory for git and url
HasManifest(source, tool) ==
    LET file == tool \o JSONC_EXT
    IN IF source.source_type = "local"
       THEN LET dir == walk(IF is_absolute(source.path) THEN <<>> ELSE CWD,
                            components(source.path))
            IN dir.some /\ Append(dir.val, file) \in files
       ELSE IF source.source_type = "git"
       THEN <<DIR_W, MANIFEST_CACHE, sanitize_url(source.path), file>> \in files
       ELSE IF source.source_type = "url"
       THEN <<DIR_W, MANIFEST_CACHE, URL_MANIFESTS, file>> \in files
       ELSE FALSE

\* the manifest path built for a source
ManifestPathOf(source, tool) ==
    LET file == tool \o JSONC_EXT
    IN IF source.source_type = "local" THEN source.path \o <<SLASH>> \o file
       ELSE IF source.source_type = "git"
       THEN MANIFEST_CACHE \o <<SLASH>> \o sanitize_url(source.path) \o <<SLASH>> \o file
       ELSE MANIFEST_CACHE \o <<SLASH>> \o URL_MANIFESTS \o <<SLASH>> \o file

\* C25: find_tool_manifest returns Ok; its value is the manifest path of the
\* first source, in configured order, that has a file for the tool, sources
\* of unknown type being passed over, and None exactly when no source has one.
C25_FirstSourceWins ==
    find_result.kind # "none" =>
        LET hits == {n \in 1..Len(manifest_sources) :
                         HasManifest(manifest_sources[n], find_result.tool)}
        IN /\ find_result.kind = "Ok"
           /\ find_result.val.some <=> hits # {}
           /\ hits # {} =>
                  LET first == CHOOSE n \in hits : \A k \in hits : n <= k
                  IN find_result.val.val =
                         ManifestPathOf(manifest_sources[first], find_result.tool)

\* a source of unknown type first, the local source /w/m second: a warning
\* is printed for the first and the manifest of the second is returned
C25_Witness ==
    /\ Len(manifest_sources) = 2
    /\ manifest_sources[1].source_type = "svn"
    /\ manifest_sources[2] = ManifestSource("local", P_ABS)
    /\ find_result.kind = "Ok"
    /\ find_result.tool = TOOL_T
    /\ find_result.val = Some(P_ABS \o <<SLASH>> \o TOOL_T \o JSONC_EXT)
    /\ find_result.warnings = <<"svn">>

\* C26 as stated: when --config-dir is given and that directory holds
\* <tool>.jsonc, the Config is loaded from that directory, whatever the
\* configured manifest sources hold.
C26_CliDirFirst ==
    /\ load_result.kind # "none"
    /\ load_result.cli.some
    /\ LET dir == walk(<<>>, components(load_result.cli.val))
       IN dir.some /\ Append(dir.val, load_result.tool \o JSONC_EXT) \in files
    => /\ load_result.kind = "Ok"
       /\ load_result.path = load_result.cli.val \o <<SLASH>> \o load_result.tool \o JSONC_EXT

(***************************************************************************)
(* Properties of Config::strip_comments.                                   *)
(***************************************************************************)
\* a line cut at the first // that lies outside a double-quoted string
RECURSIVE CutOutsideStrings(_, _)
CutOutsideStrings(line, in_string) ==
    IF line = <<>> THEN <<>>
    ELSE IF ~in_string /\ starts_with(line, COMMENT_MARK) THEN <<>>
    ELSE IF Head(line) = QUOTE
         THEN <<QUOTE>> \o CutOutsideStrings(Tail(line), ~in_string)
    ELSE <<Head(line)>> \o CutOutsideStrings(Tail(line), in_string)

\* C27 as stated: on every line strip_comments removes the // comment that
\* lies outside a double-quoted string, from the // to the end of the line,
\* and keeps every // inside a quoted string, also on a line that holds a
\* quoted // and a later trailing comment.
C27_StripsComments ==
    stripped.some =>
        stripped.val =
            join([i \in 1..Len(lines(content)) |->
                      CutOutsideStrings(lines(content)[i], FALSE)], NEWLINE)

(***************************************************************************)
(* Properties of the lifecycle commands.                                   *)
(***************************************************************************)
\* the command main is running, or ran last, is one of update, build, run
GuardedCommand == command.name \in {"update", "build", "run"}

\* the action list of the manifest that belongs to a command
ListOf(name) ==
    IF name = "install" THEN manifest.installation
    ELSE IF name = "update" THEN manifest.update
    ELSE IF name = "build" THEN manifest.build
    ELSE manifest.run

\* the directory could not be created
CreationFailed == result.kind = "Err" /\ result.msg = ERR_CREATE_DIR

\* C28: after an install_command call whose directory creation did not fail
\* the repository directory exists, whether the installation actions
\* succeeded or not, and it stays; an update, build or run command that
\* finds the directory calls execute_actions with its own action list; and
\* install_command calls execute_actions with the installation list also
\* when the directory was there before.
C28_InstallEnablesLater ==
    /\ [](command.name = "install" /\ ~CreationFailed =>
              /\ repo_dir
              /\ command.called
              /\ actions = manifest.installation)
    /\ [][repo_dir => repo_dir']_vars
    /\ [](GuardedCommand /\ repo_dir =>
              /\ command.called
              /\ actions = ListOf(command.name)
              /\ pc = "idle" => Len(output) >= 2)

\* the installation action failed, no success message was printed, and the
\* update that followed has announced its action
C28_Witness ==
    /\ runs = 2
    /\ Len(console) >= 4
    /\ console[1] = LINE_INSTALLING
    /\ console[2] = LINE_PROCEEDING
    /\ console[3] = LINE_ERROR
    /\ console[4] = LINE_UPDATING
    /\ command.name = "update"
    /\ command.called
    /\ Len(output) = 2
    /\ output[1] = [kind |-> "Step", idx |-> 1, seq_id |-> 20]

\* C29: when the repository directory does not exist, update_command,
\* build_command and run_command return Ok without calling execute_actions:
\* no action is announced or launched, whatever the action list, the
\* arguments and the override flags, and main prints the success message.
C29_MissingRepoShortCircuit ==
    GuardedCommand /\ ~repo_dir =>
        /\ ListOf(command.name) # <<>>
        /\ ~command.called
        /\ output = <<>>
        /\ started = <<>>
        /\ result = [kind |-> "Ok"]
        /\ pc \in {"done", "idle"}
        /\ pc = "done" => console[Len(console)] = LINE_MISSING
        /\ pc = "idle" =>
               /\ console[Len(console)] = SuccessLine(command.name)
               /\ console[Len(console) - 1] = LINE_MISSING

\* run after a failed attempt to create the directory: nothing is run and
\* the success message is printed
C29_Witness ==
    /\ runs = 2
    /\ ~repo_dir
    /\ command.name = "run"
    /\ pc = "idle"
    /\ console = <<LINE_INSTALLING, LINE_ERROR, LINE_RUNNING, LINE_MISSING,
                   SuccessLine("run")>>

====
